---- MODULE Spec2Model ----
(***************************************************************************)
(* A model of secret_santa.py: CreateBigraph builds the candidate graph     *)
(* of a roster and its couples, BipartiteMatch (Hopcroft-Karp, after        *)
(* D. Eppstein) computes a maximum matching recipient -> giver,             *)
(* MakeSureEverybodyHasGift walks the cycles of the matching, and main      *)
(* chains the three.                                                        *)
(*                                                                         *)
(* Python dictionaries are functions whose DOMAIN is the key set; Python    *)
(* lists are sequences.  The iteration order of a dictionary is not fixed   *)
(* by the program, so every loop over a dictionary takes its keys in an     *)
(* order chosen with \E.                                                    *)
(***************************************************************************)
EXTENDS Naturals, Sequences, FiniteSets

VARIABLES
  entry,          \* the function called from outside: main, BipartiteMatch or MakeSureEverybodyHasGift
  pc,             \* the position of the program
  attendees,      \* the keys of g_attendees (the roster)
  couples,        \* g_couples, a collection of pairs <<p1, p2>>
  graph,          \* the dictionary giver -> list of recipients
  matching,       \* BipartiteMatch: the dictionary recipient -> giver
  preds,          \* BipartiteMatch: recipient -> list of givers of the previous layer
  pred,           \* BipartiteMatch: giver -> recipient of the previous layer, or Unmatched
  layer,          \* BipartiteMatch: the current layer of givers
  unmatched,      \* BipartiteMatch: the free recipients of the final layer
  attendees_copy, \* MakeSureEverybodyHasGift: its local copy of the mapping
  cycles          \* MakeSureEverybodyHasGift: the counts printed so far

vars == <<entry, pc, attendees, couples, graph, matching, preds, pred, layer,
          unmatched, attendees_copy, cycles>>

\* The participants the rosters of main are drawn from.
Names == {"A", "B", "C", "D"}

\* The vertices the graphs handed directly to BipartiteMatch are drawn from.
EngineNames == {"A", "B", "C"}

\* At most this many pairs in g_couples.
MaxCouples == 3

\* At most this many edges in a graph handed directly to BipartiteMatch.
MaxEdges == 8

\* The flag value of pred[u] for a giver u of the first layer (the code uses
\* the identity of the list `unmatched`).
Unmatched == "<unmatched>"

(***************************************************************************)
(* Dictionaries and lists                                                   *)
(***************************************************************************)
EmptyDict == [x \in {} |-> x]

Put(d, k, v) == [x \in (DOMAIN d) \cup {k} |-> IF x = k THEN v ELSE d[x]]

Del(d, k) == [x \in (DOMAIN d) \ {k} |-> d[x]]

Range(s) == {s[i] : i \in DOMAIN s}

Size(d) == Cardinality(DOMAIN d)

\* The orders in which a loop may take the elements of S.
Orders(S) ==
  {s \in [1..Cardinality(S) -> S] : \A i, j \in 1..Cardinality(S) : s[i] = s[j] => i = j}

\* The lists over S without repetition.
Lists(S) == UNION {Orders(T) : T \in SUBSET S}

(***************************************************************************)
(* CreateBigraph                                                            *)
(***************************************************************************)
\* A changed Skip: a couple excludes in the order it is written only.
SkipMutantOneWay(p1, p2, cs) == p1 = p2 \/ <<p1, p2>> \in cs

\* A changed Skip: a participant is not kept from its own list.
SkipMutantNoSelf(p1, p2, cs) == <<p1, p2>> \in cs \/ <<p2, p1>> \in cs

\* Line 109's test: p2 is skipped as a candidate of p1.  p1 and p2 are both
\* key objects of the one dictionary `attendees`, so `p1 is p2` holds exactly
\* when they are the same key.
Skip(p1, p2, cs) == p1 = p2 \/ <<p1, p2>> \in cs \/ <<p2, p1>> \in cs

\* The inner loop of lines 108-111 from position i of randomized_attendees:
\* the candidates of p1, appended in the shuffled order.
RECURSIVE Candidates(_, _, _, _)

\* A changed Candidates: the last of randomized_attendees is never added.
CandidatesMutantOffByOne(p1, randomized, cs, i) ==
  IF i >= Len(randomized) THEN <<>>
  ELSE IF Skip(p1, randomized[i], cs) THEN Candidates(p1, randomized, cs, i + 1)
  ELSE <<randomized[i]>> \o Candidates(p1, randomized, cs, i + 1)

Candidates(p1, randomized, cs, i) ==
  IF i > Len(randomized) THEN <<>>
  ELSE IF Skip(p1, randomized[i], cs) THEN Candidates(p1, randomized, cs, i + 1)
  ELSE <<randomized[i]>> \o Candidates(p1, randomized, cs, i + 1)

\* Lines 103-112.  g.setdefault(p1, []) runs only when a candidate is
\* appended, so a participant without candidates is no key of g.
CreateBigraph(as, cs, randomized) ==
  LET keys == {p1 \in as : Candidates(p1, randomized, cs, 1) # <<>>}
  IN  [p1 \in keys |-> Candidates(p1, randomized, cs, 1)]

(***************************************************************************)
(* BipartiteMatch                                                           *)
(***************************************************************************)
\* The position in list of the first v that is no key of m, or 0.
FirstFree(list, m) ==
  LET free == {i \in 1..Len(list) : list[i] \notin DOMAIN m}
  IN  IF free = {} THEN 0 ELSE CHOOSE i \in free : \A j \in free : i <= j

\* A changed Greedy without the `break` of line 45: a giver takes every free
\* candidate.
RECURSIVE GreedyMutantNoBreak(_, _, _, _)
GreedyMutantNoBreak(g, order, i, m) ==
  IF i > Len(order) THEN m
  ELSE LET u == order[i]
           free == Range(g[u]) \ DOMAIN m
       IN  GreedyMutantNoBreak(g, order, i + 1,
             [v \in (DOMAIN m) \cup free |-> IF v \in free THEN u ELSE m[v]])

\* Lines 40-45 with the givers taken in the order `order`, from position i.
RECURSIVE Greedy(_, _, _, _)
Greedy(g, order, i, m) ==
  IF i > Len(order) THEN m
  ELSE LET u == order[i]
           k == FirstFree(g[u], m)
       IN  Greedy(g, order, i + 1, IF k = 0 THEN m ELSE Put(m, g[u][k], u))

\* Lines 55-57: every giver flagged Unmatched, then the matched givers
\* deleted.  `del pred[matching[v]]` raises KeyError when the giver was
\* deleted before, that is when two recipients share a giver.
SharedGiver(m) == \E v1, v2 \in DOMAIN m : v1 # v2 /\ m[v1] = m[v2]

FirstLayerPred(g, m) == [u \in (DOMAIN g) \ Range(m) |-> Unmatched]

\* Lines 63-66: new_layer after the givers of `lay` from position i on, and
\* the candidates of lay[i] from position j on.
RECURSIVE NewLayer(_, _, _, _, _, _)

\* A changed NewLayer: only the first candidate of each giver is followed.
NewLayerMutantFirstOnly(g, prs, lay, i, j, nl) ==
  IF i > Len(lay) THEN nl
  ELSE IF j > 1 \/ j > Len(g[lay[i]]) THEN NewLayer(g, prs, lay, i + 1, 1, nl)
  ELSE LET u == lay[i]
           v == g[u][j]
       IN  IF v \notin DOMAIN prs
             THEN NewLayer(g, prs, lay, i, j + 1,
                    Put(nl, v, (IF v \in DOMAIN nl THEN nl[v] ELSE <<>>) \o <<u>>))
             ELSE NewLayer(g, prs, lay, i, j + 1, nl)

NewLayer(g, prs, lay, i, j, nl) ==
  IF i > Len(lay) THEN nl
  ELSE IF j > Len(g[lay[i]]) THEN NewLayer(g, prs, lay, i + 1, 1, nl)
  ELSE LET u == lay[i]
           v == g[u][j]
       IN  IF v \notin DOMAIN prs
             THEN NewLayer(g, prs, lay, i, j + 1,
                    Put(nl, v, (IF v \in DOMAIN nl THEN nl[v] ELSE <<>>) \o <<u>>))
             ELSE NewLayer(g, prs, lay, i, j + 1, nl)

\* A changed NextLayer: the giver of a matched recipient does not join the
\* next layer.
NextLayerMutantStop(m, order) == <<>>

\* Lines 67-74 with the keys of new_layer taken in the order `order`: the
\* next layer, the free recipients, preds and pred.
NextLayer(m, order) ==
  LET matched == SelectSeq(order, LAMBDA v : v \in DOMAIN m)
  IN  [i \in 1..Len(matched) |-> m[matched[i]]]

NextUnmatched(m, order) == SelectSeq(order, LAMBDA v : v \notin DOMAIN m)

NextPreds(prs, nl) ==
  [v \in (DOMAIN prs) \cup (DOMAIN nl) |-> IF v \in DOMAIN nl THEN nl[v] ELSE prs[v]]

NextPred(pd, m, nl) ==
  LET reached == {v \in DOMAIN nl : v \in DOMAIN m}
  IN  [u \in (DOMAIN pd) \cup {m[v] : v \in reached} |->
         IF \E v \in reached : m[v] = u
           THEN CHOOSE v \in reached : m[v] = u
           ELSE pd[u]]

\* Lines 87-98.  st holds the dictionaries Recurse changes (preds, pred,
\* matching); the result is st after the call, with `found` its return value.
\* Recurse is lines 88-90 and 98, TryGivers the loop of lines 91-97.
RECURSIVE Recurse(_, _), TryGivers(_, _, _, _)

\* A changed Recurse without line 96: a path found is not flipped.
RecurseMutantNoFlip(v, st) ==
  IF v \in DOMAIN st.preds
    THEN LET r == TryGivers(v, st.preds[v], 1, [st EXCEPT !.preds = Del(st.preds, v)])
         IN  [r EXCEPT !.matching = st.matching]
    ELSE [st EXCEPT !.found = FALSE]

Recurse(v, st) ==
  IF v \in DOMAIN st.preds
    THEN TryGivers(v, st.preds[v], 1, [st EXCEPT !.preds = Del(st.preds, v)])
    ELSE [st EXCEPT !.found = FALSE]

\* Lines 91-97: the loop `for u in L` from position i.
TryGivers(v, L, i, st) ==
  IF i > Len(L) THEN [st EXCEPT !.found = FALSE]
  ELSE LET u == L[i] IN
    IF u \notin DOMAIN st.pred THEN TryGivers(v, L, i + 1, st)
    ELSE LET pu == st.pred[u]
             st1 == [st EXCEPT !.pred = Del(st.pred, u)] IN
      IF pu = Unmatched
        THEN [st1 EXCEPT !.matching = Put(st1.matching, v, u), !.found = TRUE]
        ELSE LET r == Recurse(pu, st1) IN
          IF r.found
            THEN [r EXCEPT !.matching = Put(r.matching, v, u)]
            ELSE TryGivers(v, L, i + 1, r)

\* Line 100: Recurse on every free recipient, from position i of `unmatched`.
RECURSIVE Augment(_, _, _)
Augment(um, i, st) ==
  IF i > Len(um) THEN st ELSE Augment(um, i + 1, Recurse(um[i], st))

(***************************************************************************)
(* MakeSureEverybodyHasGift                                                 *)
(***************************************************************************)
\* A changed Walk: the count starts at 0.
RECURSIVE WalkMutantCountFromZero(_, _, _, _)
WalkMutantCountFromZero(m, root, a, count) ==
  IF a = root THEN [error |-> FALSE, m |-> m, count |-> count - 1]
  ELSE IF a \notin DOMAIN m THEN [error |-> TRUE, m |-> m, count |-> count - 1]
  ELSE WalkMutantCountFromZero(Del(m, a), root, m[a], count + 1)

\* Lines 129-134 from the participant a on: the copy and the count when the
\* chain is back at root, or a KeyError when attendees.pop(a) finds no a.
\* root, a key, and a, a value of the mapping, are key objects of the one
\* dictionary g_attendees, so `a is not root` is a # root.
RECURSIVE Walk(_, _, _, _)
Walk(m, root, a, count) ==
  IF a = root THEN [error |-> FALSE, m |-> m, count |-> count]
  ELSE IF a \notin DOMAIN m THEN [error |-> TRUE, m |-> m, count |-> count]
  ELSE Walk(Del(m, a), root, m[a], count + 1)

(***************************************************************************)
(* The initial states                                                       *)
(***************************************************************************)
NoLocals ==
  /\ preds = EmptyDict
  /\ pred = EmptyDict
  /\ layer = <<>>
  /\ unmatched = <<>>
  /\ attendees_copy = EmptyDict
  /\ cycles = <<>>

Pairs == {c \in Names \X Names : c[1] # c[2]}

\* main is run on a roster and a collection of couples.
Init ==
  /\ entry = "main"
  /\ pc = "main"
  /\ attendees \in SUBSET Names
  /\ couples \in {cs \in SUBSET Pairs : Cardinality(cs) <= MaxCouples}
  /\ graph = EmptyDict
  /\ matching = EmptyDict
  /\ NoLocals

Edges(g) == UNION {{<<u, v>> : v \in Range(g[u])} : u \in DOMAIN g}

\* The graphs over EngineNames: every set of givers, every list of
\* recipients without repetition for each.
Graphs ==
  UNION {{g \in [U -> Lists(EngineNames)] : Cardinality(Edges(g)) <= MaxEdges} :
         U \in SUBSET EngineNames}

\* BipartiteMatch is called on a graph.
InitEngine ==
  /\ entry = "BipartiteMatch"
  /\ pc = "BipartiteMatch"
  /\ attendees = EngineNames
  /\ couples = {}
  /\ graph \in Graphs
  /\ matching = EmptyDict
  /\ NoLocals

\* The mappings over Names: every set of keys, every value for each.
Mappings == UNION {[K -> Names] : K \in SUBSET Names}

\* MakeSureEverybodyHasGift is called on a mapping.
InitValidator ==
  /\ entry = "MakeSureEverybodyHasGift"
  /\ pc = "MakeSureEverybodyHasGift"
  /\ attendees = Names
  /\ couples = {}
  /\ graph = EmptyDict
  /\ matching \in Mappings
  /\ NoLocals

(***************************************************************************)
(* The steps of main                                                        *)
(***************************************************************************)
\* A changed AssertionHolds: one participant is enough.
AssertionHoldsMutantOne(as) == Cardinality(as) > 0

\* Line 140.
AssertionHolds(as) == Cardinality(as) > 1

MainAssert ==
  /\ pc = "main"
  /\ pc' = IF AssertionHolds(attendees) THEN "CreateBigraph" ELSE "AssertionError"
  /\ UNCHANGED <<entry, attendees, couples, graph, matching, preds, pred, layer,
                 unmatched, attendees_copy, cycles>>

\* Line 141: random.shuffle yields any order of the keys.
MainCreateBigraph ==
  /\ pc = "CreateBigraph"
  /\ \E randomized \in Orders(attendees) :
       graph' = CreateBigraph(attendees, couples, randomized)
  /\ pc' = "BipartiteMatch"
  /\ UNCHANGED <<entry, attendees, couples, matching, preds, pred, layer,
                 unmatched, attendees_copy, cycles>>

(***************************************************************************)
(* The steps of BipartiteMatch                                              *)
(***************************************************************************)
\* Lines 40-45.
GreedySeed ==
  /\ pc = "BipartiteMatch"
  /\ \E order \in Orders(DOMAIN graph) :
       matching' = Greedy(graph, order, 1, EmptyDict)
  /\ pc' = "phase"
  /\ UNCHANGED <<entry, attendees, couples, graph, preds, pred, layer,
                 unmatched, attendees_copy, cycles>>

\* Lines 53-58: the start of a phase.
PhaseStart ==
  /\ pc = "phase"
  /\ IF SharedGiver(matching)
       THEN /\ pc' = "BipartiteMatch.KeyError"
            /\ UNCHANGED <<preds, pred, layer, unmatched>>
       ELSE /\ preds' = EmptyDict
            /\ unmatched' = <<>>
            /\ pred' = FirstLayerPred(graph, matching)
            /\ layer' \in Orders(DOMAIN FirstLayerPred(graph, matching))
            /\ pc' = "layering"
  /\ UNCHANGED <<entry, attendees, couples, graph, matching, attendees_copy, cycles>>

\* Lines 61-74: one more pair of layers.
ExtendLayering ==
  /\ pc = "layering"
  /\ layer # <<>> /\ unmatched = <<>>
  /\ LET new_layer == NewLayer(graph, preds, layer, 1, 1, EmptyDict) IN
       /\ preds' = NextPreds(preds, new_layer)
       /\ pred' = NextPred(pred, matching, new_layer)
       /\ \E order \in Orders(DOMAIN new_layer) :
            /\ layer' = NextLayer(matching, order)
            /\ unmatched' = NextUnmatched(matching, order)
  /\ UNCHANGED <<entry, pc, attendees, couples, graph, matching, attendees_copy, cycles>>

\* Lines 77-83: the layering found no free recipient, the matching is
\* returned.  (The two vertex sets returned with it are used by no caller.)
Return ==
  /\ pc = "layering"
  /\ ~(layer # <<>> /\ unmatched = <<>>)
  /\ unmatched = <<>>
  /\ pc' = IF entry = "main" THEN "MakeSureEverybodyHasGift" ELSE "returned"
  /\ UNCHANGED <<entry, attendees, couples, graph, matching, preds, pred, layer,
                 unmatched, attendees_copy, cycles>>

\* Line 100, then back to line 47.
AugmentPhase ==
  /\ pc = "layering"
  /\ ~(layer # <<>> /\ unmatched = <<>>)
  /\ unmatched # <<>>
  /\ LET st == Augment(unmatched, 1,
                 [preds |-> preds, pred |-> pred, matching |-> matching, found |-> FALSE])
     IN  /\ preds' = st.preds
         /\ pred' = st.pred
         /\ matching' = st.matching
  /\ pc' = "phase"
  /\ UNCHANGED <<entry, attendees, couples, graph, layer, unmatched, attendees_copy, cycles>>

(***************************************************************************)
(* The steps of MakeSureEverybodyHasGift                                    *)
(***************************************************************************)
\* Line 127.
CopyMapping ==
  /\ pc = "MakeSureEverybodyHasGift"
  /\ attendees_copy' = matching
  /\ cycles' = <<>>
  /\ pc' = "cycles"
  /\ UNCHANGED <<entry, attendees, couples, graph, matching, preds, pred, layer,
                 unmatched>>

\* Lines 128-136: one cycle.  keys()[0] is any key of the copy.
WalkCycle ==
  /\ pc = "cycles"
  /\ DOMAIN attendees_copy # {}
  /\ \E root \in DOMAIN attendees_copy :
       LET w == Walk(attendees_copy, root, attendees_copy[root], 1) IN
         IF w.error
           THEN /\ pc' = "MakeSureEverybodyHasGift.KeyError"
                /\ attendees_copy' = w.m
                /\ UNCHANGED cycles
           ELSE /\ pc' = "cycles"
                /\ attendees_copy' = Del(w.m, root)
                /\ cycles' = Append(cycles, w.count)
  /\ UNCHANGED <<entry, attendees, couples, graph, matching, preds, pred, layer,
                 unmatched>>

\* Line 128: the copy is empty, the function returns.
ValidatorReturn ==
  /\ pc = "cycles"
  /\ DOMAIN attendees_copy = {}
  /\ pc' = IF entry = "main" THEN "SendEmail" ELSE "returned"
  /\ UNCHANGED <<entry, attendees, couples, graph, matching, preds, pred, layer,
                 unmatched, attendees_copy, cycles>>

\* Lines 144-148: one mail per entry of the mapping; the mailer is outside
\* the program.
SendEmails ==
  /\ pc = "SendEmail"
  /\ pc' = "done"
  /\ UNCHANGED <<entry, attendees, couples, graph, matching, preds, pred, layer,
                 unmatched, attendees_copy, cycles>>

(***************************************************************************)
(* The specifications                                                       *)
(***************************************************************************)
Next ==
  \/ MainAssert
  \/ MainCreateBigraph
  \/ GreedySeed
  \/ PhaseStart
  \/ ExtendLayering
  \/ Return
  \/ AugmentPhase
  \/ CopyMapping
  \/ WalkCycle
  \/ ValidatorReturn
  \/ SendEmails

\* main on every roster and collection of couples.
Spec == Init /\ [][Next]_vars

NextEngine ==
  \/ GreedySeed
  \/ PhaseStart
  \/ ExtendLayering
  \/ Return
  \/ AugmentPhase

\* BipartiteMatch on every graph.
SpecEngine == InitEngine /\ [][NextEngine]_vars

NextValidator ==
  \/ CopyMapping
  \/ WalkCycle
  \/ ValidatorReturn

\* MakeSureEverybodyHasGift on every mapping.
SpecValidator == InitValidator /\ [][NextValidator]_vars

(***************************************************************************)
(* Notions the properties are stated with                                   *)
(***************************************************************************)
\* M, a set of edges <<giver, recipient>>, is a matching.
IsMatching(M) ==
  \A e1, e2 \in M : e1 # e2 => e1[1] # e2[1] /\ e1[2] # e2[2]

\* The size of a largest matching of g, by enumeration of all sets of edges.
MaxMatchingSize(g) ==
  LET sizes == {Cardinality(M) : M \in {X \in SUBSET Edges(g) : IsMatching(X)}}
  IN  CHOOSE n \in sizes : \A k \in sizes : k <= n

\* Every entry recipient -> giver of m is an edge of g and no giver has two
\* recipients.
ValidMatching(g, m) ==
  /\ \A v \in DOMAIN m : m[v] \in DOMAIN g /\ v \in Range(g[m[v]])
  /\ ~ SharedGiver(m)

\* The candidates the couples leave to p.
Permitted(p) ==
  {q \in attendees : q # p /\ <<p, q>> \notin couples /\ <<q, p>> \notin couples}

\* The candidate list of p in g; a participant that is no key of g has none.
CandidateList(g, p) == IF p \in DOMAIN g THEN g[p] ELSE <<>>

NoRepetition(list) == \A i, j \in DOMAIN list : list[i] = list[j] => i = j

\* No entry of m maps a participant to itself or to its excluded partner.
RespectsExclusions(m) ==
  \A v \in DOMAIN m :
    m[v] # v /\ <<v, m[v]>> \notin couples /\ <<m[v], v>> \notin couples

\* m is a bijection over the set S.
Bijection(m, S) ==
  /\ DOMAIN m = S
  /\ {m[v] : v \in S} = S

\* main has built the graph.
GraphBuilt == entry = "main" /\ pc \notin {"main", "AssertionError", "CreateBigraph"}

\* main has the matching BipartiteMatch returned.
MatchingReturned ==
  /\ entry = "main"
  /\ pc \in {"MakeSureEverybodyHasGift", "cycles", "SendEmail", "done",
             "MakeSureEverybodyHasGift.KeyError"}

\* MakeSureEverybodyHasGift has returned to its caller.
ValidatorReturned == pc \in {"SendEmail", "done"} \/ (entry # "main" /\ pc = "returned")

\* MakeSureEverybodyHasGift has ended, by a return or by an exception.
ValidatorEnded == ValidatorReturned \/ pc = "MakeSureEverybodyHasGift.KeyError"

RECURSIVE Sum(_)
Sum(s) == IF s = <<>> THEN 0 ELSE Head(s) + Sum(Tail(s))

\* The participant reached from p by k steps recipient -> giver.
RECURSIVE Iterate(_, _, _)
Iterate(m, p, k) == IF k = 0 THEN p ELSE Iterate(m, m[p], k - 1)

\* The length of the cycle of p in the bijection m.
CycleLength(m, p) ==
  CHOOSE k \in 1..Size(m) :
    Iterate(m, p, k) = p /\ \A j \in 1..(k - 1) : Iterate(m, p, j) # p

\* counts holds one count per cycle of the bijection m, the length of the cycle.
CountsTheCycles(m, counts) ==
  /\ Range(counts) \subseteq 1..Size(m)
  /\ \A k \in 1..(Size(m) + 1) :
    k * Cardinality({i \in DOMAIN counts : counts[i] = k})
      = Cardinality({p \in DOMAIN m : CycleLength(m, p) = k})

(***************************************************************************)
(* BipartiteMatch on every graph (SpecEngine)                               *)
(***************************************************************************)
\* C1: the matching BipartiteMatch returns has as many entries as a largest
\* matching of the graph, found by enumerating every set of edges.
C1_ResultIsMaximum ==
  pc = "returned" => Size(matching) = MaxMatchingSize(graph)

\* C1's case: a graph in which every vertex is a giver with candidates and
\* that has no perfect matching; BipartiteMatch returned 2 entries.
C1_Witness ==
  /\ pc = "returned"
  /\ DOMAIN graph = EngineNames
  /\ \A u \in EngineNames : graph[u] # <<>>
  /\ Size(matching) = 2

\* The work BipartiteMatch has left, a natural number: the givers still
\* without recipient count most, then the recipients the layering of the
\* phase has not reached.
WorkLeft ==
  LET recipients == UNION {Range(graph[u]) : u \in DOMAIN graph}
      perPhase == Cardinality(recipients) + 3
      free == Size(graph) - Size(matching)
      looping == IF layer # <<>> /\ unmatched = <<>> THEN 1 ELSE 0
  IN  CASE pc = "BipartiteMatch" -> (Size(graph) + 2) * perPhase
        [] pc = "phase" -> (free + 1) * perPhase
        [] pc = "layering" ->
             free * perPhase + 1 + Cardinality(recipients \ DOMAIN preds) + looping
        [] OTHER -> 0

\* C4: BipartiteMatch returns on every graph: every step lessens the work
\* left, so the phase loop ends, and a step is possible until the matching is
\* returned; no exception is raised; and on a graph without a matching that
\* covers every participant the returned matching has fewer entries than
\* there are participants.
C4_TerminatesWithoutError ==
  /\ [][WorkLeft' < WorkLeft]_vars
  /\ [](pc # "returned" => ENABLED NextEngine)
  /\ [](pc # "BipartiteMatch.KeyError")
  /\ [](pc = "returned" /\ MaxMatchingSize(graph) < Cardinality(EngineNames)
          => Size(matching) < Cardinality(EngineNames))

\* C4's case: BipartiteMatch returned on a graph that has edges and no
\* matching covering the three participants.
C4_Witness ==
  /\ pc = "returned"
  /\ Edges(graph) # {}
  /\ MaxMatchingSize(graph) < Cardinality(EngineNames)
  /\ Size(matching) < Cardinality(EngineNames)

\* C10: from the greedy seed on, at the start of every phase and in the
\* returned result, the matching is a valid matching of the graph (every
\* entry is an edge, no giver has two recipients); and a phase that reached a
\* free recipient ends with strictly more entries than it started with.
C10_MatchingValidAndGrowing ==
  /\ [](pc \in {"phase", "layering", "returned"} => ValidMatching(graph, matching))
  /\ [][pc = "layering" /\ pc' = "phase" => Size(matching') > Size(matching)]_vars

\* C10's case: a phase that reached two free recipients has augmented along
\* one path, and the next phase starts.
C10_Witness ==
  /\ pc = "phase"
  /\ Len(unmatched) = 2
  /\ Size(matching) = 2
  /\ ValidMatching(graph, matching)

(***************************************************************************)
(* main on every roster and collection of couples (Spec)                    *)
(***************************************************************************)
\* C2: the matching of CreateBigraph followed by BipartiteMatch has no entry
\* recipient -> giver whose two participants are a couple, in either order,
\* and no entry whose recipient is its giver.
C2_NoExcludedPairMatched == MatchingReturned => RespectsExclusions(matching)

\* C2's case: four participants, two of them a couple, all four matched.
C2_Witness ==
  /\ MatchingReturned
  /\ attendees = Names
  /\ couples # {}
  /\ \A c \in couples : c[1] \in attendees /\ c[2] \in attendees
  /\ DOMAIN matching = attendees

\* C3: the graph of CreateBigraph gives every participant p, as the elements
\* of its candidate list, exactly the participants q # p of the roster with
\* neither <<p, q>> nor <<q, p>> a couple, none repeated, whatever the
\* shuffle.  (A participant left without candidate has no list in the graph:
\* it is no key.)
C3_CandidatesAreThePermitted ==
  GraphBuilt =>
    \A p \in attendees :
      /\ Range(CandidateList(graph, p)) = Permitted(p)
      /\ NoRepetition(CandidateList(graph, p))
      /\ p \notin Range(CandidateList(graph, p))

\* C3's case: a graph built for four participants of which one has lost a
\* candidate to a couple, in an order other than the alphabetical one.
C3_Witness ==
  /\ GraphBuilt
  /\ attendees = Names
  /\ couples = {<<"B", "A">>}
  /\ graph["A"] = <<"D", "C">>
  /\ graph["C"] = <<"D", "A", "B">>

\* C5: whenever the matching given to MakeSureEverybodyHasGift does not
\* cover every participant of the roster, the validator ends in
\* IncompleteMatchingError: it neither returns nor ends in a lookup failure.
C5_IncompleteMatchingIsReported ==
  (ValidatorEnded /\ DOMAIN matching # attendees) => pc = "IncompleteMatchingError"

\* The roster A, B, C with the one couple (A, B).
Scenario6 ==
  /\ entry = "main"
  /\ attendees = {"A", "B", "C"}
  /\ couples = {<<"A", "B">>}

C7_NoCouplesGivesDerangement ==
  (entry = "main" /\ couples = {} /\ Cardinality(attendees) >= 2) =>
    /\ MatchingReturned =>
         /\ Bijection(matching, attendees)
         /\ \A v \in DOMAIN matching : matching[v] # v
    /\ pc # "MakeSureEverybodyHasGift.KeyError"
    /\ ValidatorReturned =>
         /\ Sum(cycles) = Cardinality(attendees)
         /\ 1 \notin Range(cycles)

\* C7's case: four participants, no couple, the validator has returned after
\* reporting two cycles.
C7_Witness ==
  /\ entry = "main"
  /\ couples = {}
  /\ attendees = Names
  /\ pc = "done"
  /\ cycles = <<2, 2>>

\* An input the specification calls a configuration error.
BadConfiguration ==
  \/ Cardinality(attendees) < 2
  \/ \E c \in couples : c[1] \notin attendees \/ c[2] \notin attendees

\* C8 as stated: the run ends in an error and builds no graph when the roster
\* has fewer than 2 participants or a couple names a participant that is not
\* in the roster; on every other input the graph is built.
C8_ErrorOnBadConfiguration ==
  /\ pc = "AssertionError" => BadConfiguration
  /\ GraphBuilt => ~ BadConfiguration

\* C8 amended: the run ends in an error (the assertion of main) and builds no
\* graph exactly when the roster has fewer than 2 participants; on every
\* other input, a couple naming a participant outside the roster included,
\* the graph is built, and such a couple excludes nothing more than the
\* couples within the roster do.
C8_ErrorOnSmallRosterOnly ==
  /\ pc = "AssertionError" => Cardinality(attendees) < 2
  /\ GraphBuilt => Cardinality(attendees) >= 2
  /\ pc = "CreateBigraph" => Cardinality(attendees) >= 2
  /\ GraphBuilt =>
       \A p \in attendees : Range(CandidateList(graph, p)) = Permitted(p)

\* C8's case: a graph built although a couple names D, who is not in the
\* roster.
C8_Witness ==
  /\ GraphBuilt
  /\ attendees = {"A", "B", "C"}
  /\ couples = {<<"A", "D">>}
  /\ DOMAIN graph = attendees

(***************************************************************************)
(* MakeSureEverybodyHasGift on every mapping (SpecValidator)                *)
(***************************************************************************)
\* The work MakeSureEverybodyHasGift has left.
CyclesLeft ==
  CASE pc = "MakeSureEverybodyHasGift" -> Cardinality(Names) + 2
    [] pc = "cycles" -> Size(attendees_copy) + 1
    [] OTHER -> 0

\* C9: on a mapping that is a bijection over its participants (fixed points
\* and 2-cycles included) MakeSureEverybodyHasGift returns: every step
\* lessens the work left, a step is possible until the return, and no
\* exception is raised; it has then reported one count per cycle of the
\* bijection, the length of that cycle, so that the counts sum to the number
\* of participants; and it never changes the mapping it was given.
C9_CountsEveryCycle ==
  /\ [][matching' = matching]_vars
  /\ [][CyclesLeft' < CyclesLeft]_vars
  /\ [](Bijection(matching, DOMAIN matching) =>
          /\ pc # "MakeSureEverybodyHasGift.KeyError"
          /\ pc # "returned" => ENABLED NextValidator
          /\ pc = "returned" =>
               /\ CountsTheCycles(matching, cycles)
               /\ Sum(cycles) = Size(matching))

\* C9's case: the validator has returned on a bijection over the four
\* participants with a fixed point and a 2-cycle.
C9_Witness ==
  /\ pc = "returned"
  /\ DOMAIN matching = Names
  /\ Bijection(matching, Names)
  /\ 1 \in Range(cycles)
  /\ 2 \in Range(cycles)
====
